---- MODULE Spec2Model ----
(***************************************************************************)
(* Frame reading, CONTINUATION joining and the connection handshakes of    *)
(* src/src/solicit_async.rs, as a state machine over one connection.       *)
(*                                                                         *)
(* The connection is a byte stream: `rd` is every byte the code has read   *)
(* from it so far, `wr` every byte it has written, `log` the I/O calls in  *)
(* order.  The bytes the peer sends are chosen when the code reads them.   *)
(*                                                                         *)
(* A second state machine is the client of tests/test_client.rs with its   *)
(* connection engine: requests, stream table, state dump and reconnect.    *)
(***************************************************************************)
EXTENDS Integers, Sequences, FiniteSets, TLC

VARIABLES
    op,              \* the function that was called ("none" before the call)
    max_frame_size,  \* its max_frame_size argument
    pc,              \* where the future is suspended
    raw_header,      \* recv_raw_frame: the 9 header bytes read
    header_opt,      \* recv_http_frame_join_cont: the loop state (None or a frame)
    nframes,         \* raw frames read completely from the connection
    frames,          \* the frames decoded from the connection, in wire order
    returned,        \* what the earlier calls on the connection returned
    rd,              \* bytes read from the connection
    wr,              \* bytes written to the connection
    log,             \* the reads and writes, in order
    result,          \* None while running, then Ok(..) or Err(..)
    \* The client and its connection engine:
    generation,      \* connections the client has made so far
    conn_state,      \* "connecting", "connected" or "dead"
    next_stream_id,  \* next outbound stream id of the connection
    streams,         \* the stream table: open stream id -> stream state
    goaway,          \* None, or Some(last-stream-id) of the GOAWAY received
    peer_closed,     \* the peer has closed the socket
    requests,        \* the requests the application started, in order
    sent             \* what the client wrote to its connection, in order

framerVars == <<op, max_frame_size, pc, raw_header, header_opt, nframes, frames,
                returned, rd, wr, log, result>>

clientVars == <<generation, conn_state, next_stream_id, streams, goaway,
                peer_closed, requests, sent>>

vars == <<framerVars, clientVars>>

----------------------------------------------------------------------------
(* Bounds of the exploration.                                              *)

\* recv_http_frame_join_cont: frames read by one call.
MaxFrames == 3

\* Requests the application starts on one client.
MaxRequests == 2

\* Connections one client makes, the first included.
MaxConnections == 2

----------------------------------------------------------------------------
(* Wire constants.                                                         *)

FRAME_HEADER_LEN == 9

\* b"PRI * HTTP/2.0\r\n\r\nSM\r\n\r\n"
PREFACE ==
    << 80, 82, 73, 32, 42, 32, 72, 84, 84, 80, 47, 50, 46, 48,
       13, 10, 13, 10, 83, 77, 13, 10, 13, 10 >>

\* Frame type octets.
TYPE_DATA == 0
TYPE_HEADERS == 1
TYPE_PRIORITY == 2
TYPE_RST_STREAM == 3
TYPE_SETTINGS == 4
TYPE_PUSH_PROMISE == 5
TYPE_PING == 6
TYPE_GOAWAY == 7
TYPE_WINDOW_UPDATE == 8
TYPE_CONTINUATION == 9

\* Flag bits.
FLAG_END_STREAM == 1
FLAG_ACK == 1
FLAG_END_HEADERS == 4

\* SETTINGS_ENABLE_PUSH identifier.
SETTING_ENABLE_PUSH == 2

\* First octet of a TLS record carrying a handshake message.
TLS_HANDSHAKE_BYTE == 22

None == [none |-> TRUE]

Ok(v) == [ok |-> TRUE, val |-> v]

Err(kind, detail) == [ok |-> FALSE, kind |-> kind, detail |-> detail]

is_set(flags, bit) == (flags \div bit) % 2 = 1

set(flags, bit) == IF is_set(flags, bit) THEN flags ELSE flags + bit

----------------------------------------------------------------------------
(* solicit::frame: header unpacking and frame decoding.                    *)

\* 24-bit length, 8-bit type, 8-bit flags, 31-bit stream id (reserved bit cleared).
unpack_header(h) ==
    [ length    |-> h[1] * 65536 + h[2] * 256 + h[3],
      type      |-> h[4],
      flags     |-> h[5],
      stream_id |-> (h[6] % 128) * 16777216 + h[7] * 65536 + h[8] * 256 + h[9] ]

Frame(type, flags, stream_id, fragment, promised, body) ==
    [ type |-> type, flags |-> flags, stream_id |-> stream_id,
      header_fragment |-> fragment, promised_stream_id |-> promised,
      body |-> body ]

BytesAfter(s, n) == SubSeq(s, n + 1, Len(s))

\* HttpFrame::from_raw: the variant is chosen by the type octet; a payload that
\* does not fit the type is an InvalidFrame error.  Flags PADDED and PRIORITY
\* are never sent by the modelled peer, so a HEADERS payload is its fragment.
from_raw(raw) ==
    LET h == unpack_header(SubSeq(raw, 1, FRAME_HEADER_LEN))
        payload == BytesAfter(raw, FRAME_HEADER_LEN)
        bad == Err("InvalidFrame", "decode")
    IN  CASE h.type = TYPE_DATA ->
                IF h.stream_id = 0 THEN bad
                ELSE Ok(Frame("Data", h.flags, h.stream_id, <<>>, 0, payload))
          [] h.type = TYPE_HEADERS ->
                IF h.stream_id = 0 THEN bad
                ELSE Ok(Frame("Headers", h.flags, h.stream_id, payload, 0, <<>>))
          [] h.type = TYPE_SETTINGS ->
                IF \/ h.stream_id # 0
                   \/ Len(payload) % 6 # 0
                   \/ is_set(h.flags, FLAG_ACK) /\ Len(payload) # 0
                THEN bad
                ELSE Ok(Frame("Settings", h.flags, 0, <<>>, 0, payload))
          [] h.type = TYPE_PUSH_PROMISE ->
                IF h.stream_id = 0 \/ Len(payload) < 4 THEN bad
                ELSE Ok(Frame("PushPromise", h.flags, h.stream_id,
                              BytesAfter(payload, 4),
                              (payload[1] % 128) * 16777216 + payload[2] * 65536
                                  + payload[3] * 256 + payload[4],
                              <<>>))
          [] h.type = TYPE_CONTINUATION ->
                IF h.stream_id = 0 THEN bad
                ELSE Ok(Frame("Continuation", h.flags, h.stream_id, payload, 0, <<>>))
          [] h.type = TYPE_PRIORITY ->
                IF h.stream_id = 0 \/ Len(payload) # 5 THEN bad
                ELSE Ok(Frame("Priority", h.flags, h.stream_id, <<>>, 0, payload))
          [] h.type = TYPE_RST_STREAM ->
                IF h.stream_id = 0 \/ Len(payload) # 4 THEN bad
                ELSE Ok(Frame("RstStream", h.flags, h.stream_id, <<>>, 0, payload))
          [] h.type = TYPE_PING ->
                IF h.stream_id # 0 \/ Len(payload) # 8 THEN bad
                ELSE Ok(Frame("Ping", h.flags, 0, <<>>, 0, payload))
          [] h.type = TYPE_GOAWAY ->
                IF h.stream_id # 0 \/ Len(payload) < 8 THEN bad
                ELSE Ok(Frame("Goaway", h.flags, 0, <<>>, 0, payload))
          [] h.type = TYPE_WINDOW_UPDATE ->
                IF Len(payload) # 4 THEN bad
                ELSE Ok(Frame("WindowUpdate", h.flags, h.stream_id, <<>>, 0, payload))
          [] OTHER ->
                Ok(Frame("Unknown", h.flags, h.stream_id, <<>>, 0, payload))

\* SettingsFrame::is_ack
is_ack(f) == is_set(f.flags, FLAG_ACK)

\* ContinuationFrame::is_headers_end
is_headers_end(c) == is_set(c.flags, FLAG_END_HEADERS)

\* FrameIR::serialize_into_vec for a SETTINGS frame given as
\* [ack, settings: sequence of <<id, value>>], values below 256.
RECURSIVE SerializeSettings(_)
SerializeSettings(ss) ==
    IF ss = <<>> THEN <<>>
    ELSE <<0, Head(ss)[1], 0, 0, 0, Head(ss)[2]>> \o SerializeSettings(Tail(ss))

serialize_into_vec(f) ==
    << 0, 0, 6 * Len(f.settings), TYPE_SETTINGS,
       IF f.ack THEN FLAG_ACK ELSE 0, 0, 0, 0, 0 >>
    \o SerializeSettings(f.settings)

----------------------------------------------------------------------------
(* What the peer may send.                                                 *)

\* Header-block fragments the peer puts into one frame.
Frags == { <<>>, <<1>>, <<2>> }

\* Promised stream id of a PUSH_PROMISE payload.
PromisedField == <<0, 0, 0, 2>>

Zeros(n) == [i \in 1..n |-> 0]

\* Well-formed payloads of the fixed-size frames: a PRIORITY (dependency 0,
\* weight 16), an RST_STREAM (CANCEL), a PING (opaque zeros), a GOAWAY (last
\* stream id 1, NO_ERROR) and a WINDOW_UPDATE (increment 1).
PriorityPayload == <<0, 0, 0, 0, 16>>

RstStreamPayload == <<0, 0, 0, 8>>

PingPayload == Zeros(8)

GoawayPayload == <<0, 0, 0, 1, 0, 0, 0, 0>>

WindowUpdatePayload == <<0, 0, 0, 1>>

\* Payloads the peer sends in a frame of type octet t: a PUSH_PROMISE carries a
\* promised stream id before its fragment, a fixed-size frame its fields, or
\* either of them (malformed) nothing at all.
PayloadsFor(t) ==
    CASE t = TYPE_PUSH_PROMISE -> { PromisedField \o f : f \in Frags } \cup { <<>> }
      [] t = TYPE_PRIORITY -> { PriorityPayload, <<>> }
      [] t = TYPE_RST_STREAM -> { RstStreamPayload, <<>> }
      [] t = TYPE_PING -> { PingPayload, <<>> }
      [] t = TYPE_GOAWAY -> { GoawayPayload, <<>> }
      [] t = TYPE_WINDOW_UPDATE -> { WindowUpdatePayload, <<>> }
      [] OTHER -> Frags

TypeBytes == { TYPE_DATA, TYPE_HEADERS, TYPE_PRIORITY, TYPE_RST_STREAM,
               TYPE_SETTINGS, TYPE_PUSH_PROMISE, TYPE_PING, TYPE_GOAWAY,
               TYPE_WINDOW_UPDATE, TYPE_CONTINUATION, 10 }

AllPayloads == UNION { PayloadsFor(t) : t \in TypeBytes }

\* Longest payload sent.
MaxLen == Len(PingPayload)

FlagBytes == { 0, FLAG_END_STREAM, FLAG_END_HEADERS, FLAG_END_STREAM + FLAG_END_HEADERS }

StreamIdFields == { <<0, 0, 0, 0>>, <<0, 0, 0, 1>>, <<0, 0, 0, 3>> }

\* Length fields that only the upper length octets make large.
LargeLengthFields == { <<0, 1, 0>>, <<1, 0, 0>> }

\* The frame headers the peer sends: every type, flag set and stream id with the
\* length of a payload of that type, and headers announcing a large length.
RawHeaders ==
    UNION { { <<0, 0, Len(p), t, f>> \o s :
                p \in PayloadsFor(t), f \in FlagBytes, s \in StreamIdFields } :
            t \in TypeBytes }
    \cup
    { l \o <<t, 0, 0, 0, 0, 1>> : l \in LargeLengthFields, t \in TypeBytes }

\* The payloads that may follow raw header h.
Payloads(h) ==
    { p \in PayloadsFor(unpack_header(h).type) : Len(p) = unpack_header(h).length }

MaxFrameSizes == { 0, 1, MaxLen }

\* What the peer may send in place of the preface: the preface, the preface
\* with one byte replaced, or the start of a TLS handshake.
WrongBytes == { 0, TLS_HANDSHAKE_BYTE, 81 }

Prefaces ==
    { PREFACE } \cup
    { [PREFACE EXCEPT ![i] = b] : i \in 1..Len(PREFACE), b \in WrongBytes } \cup
    { [i \in 1..Len(PREFACE) |-> IF i = 1 THEN TLS_HANDSHAKE_BYTE ELSE 3] }

\* Bytes a read_exact or write_all has moved when it fails.
Truncations(n) == { k \in {0, 1, n - 1} : 0 <= k /\ k < n }

Read(n) == [io |-> "read", n |-> n]

Write(n) == [io |-> "write", n |-> n]

----------------------------------------------------------------------------
(* recv_http_frame_join_cont: the ContinuableFrame helper and the loop body *)

Some(v) == [none |-> FALSE, val |-> v]

ContinuableFrame(variant, f) == [variant |-> variant, frame |-> f]

\* into_frame turning either variant into a HEADERS frame.
into_frame_as_headers(h) == [h.frame EXCEPT !.type = "Headers"]

into_frame(h) ==
    CASE h.variant = "Headers" -> [h.frame EXCEPT !.type = "Headers"]
      [] h.variant = "PushPromise" -> [h.frame EXCEPT !.type = "PushPromise"]

\* extend_header_fragment putting the new bytes in front.
extend_header_fragment_prepend(h, bytes) ==
    [h EXCEPT !.frame.header_fragment = bytes \o @]

extend_header_fragment(h, bytes) ==
    [h EXCEPT !.frame.header_fragment = @ \o bytes]

\* set_end_headers leaving the flags alone.
set_end_headers_noop(h) == h

set_end_headers(h) ==
    [h EXCEPT !.frame.flags = set(@, FLAG_END_HEADERS)]

get_stream_id(h) == h.frame.stream_id

Break(f) == [tag |-> "Break", val |-> f]

Continue(h) == [tag |-> "Continue", val |-> Some(h)]

Fail(e) == [tag |-> "Err", val |-> e]

\* The loop body with the test of its last arm inverted.
join_cont_step_inverted(hopt, frame) ==
    CASE frame.type = "Headers" ->
            IF ~hopt.none
            THEN Fail(Err("Other", "expecting CONTINUATION frame, got HEADERS"))
            ELSE IF is_set(frame.flags, FLAG_END_HEADERS)
                 THEN Break(frame)
                 ELSE Continue(ContinuableFrame("Headers", frame))
      [] frame.type = "PushPromise" ->
            IF ~hopt.none
            THEN Fail(Err("Other", "expecting CONTINUATION frame, got PUSH_PROMISE"))
            ELSE IF is_set(frame.flags, FLAG_END_HEADERS)
                 THEN Break(frame)
                 ELSE Continue(ContinuableFrame("PushPromise", frame))
      [] frame.type = "Continuation" ->
            IF ~hopt.none
            THEN IF get_stream_id(hopt.val) # frame.stream_id
                 THEN Fail(Err("Other", "CONTINUATION frame with different stream id"))
                 ELSE LET header_end == is_headers_end(frame)
                          h == extend_header_fragment(hopt.val, frame.header_fragment)
                      IN  IF header_end
                          THEN Break(into_frame(set_end_headers(h)))
                          ELSE Continue(h)
            ELSE Fail(Err("Other", "CONTINUATION frame without headers"))
      [] OTHER ->
            IF hopt.none
            THEN Fail(Err("Other", "expecting CONTINUATION frame"))
            ELSE Break(frame)

\* The loop body skipping other frames while a sequence is pending.
join_cont_step_skipping(hopt, frame) ==
    CASE frame.type = "Headers" ->
            IF ~hopt.none
            THEN Fail(Err("Other", "expecting CONTINUATION frame, got HEADERS"))
            ELSE IF is_set(frame.flags, FLAG_END_HEADERS)
                 THEN Break(frame)
                 ELSE Continue(ContinuableFrame("Headers", frame))
      [] frame.type = "PushPromise" ->
            IF ~hopt.none
            THEN Fail(Err("Other", "expecting CONTINUATION frame, got PUSH_PROMISE"))
            ELSE IF is_set(frame.flags, FLAG_END_HEADERS)
                 THEN Break(frame)
                 ELSE Continue(ContinuableFrame("PushPromise", frame))
      [] frame.type = "Continuation" ->
            IF ~hopt.none
            THEN IF get_stream_id(hopt.val) # frame.stream_id
                 THEN Fail(Err("Other", "CONTINUATION frame with different stream id"))
                 ELSE LET header_end == is_headers_end(frame)
                          h == extend_header_fragment(hopt.val, frame.header_fragment)
                      IN  IF header_end
                          THEN Break(into_frame(set_end_headers(h)))
                          ELSE Continue(h)
            ELSE Fail(Err("Other", "CONTINUATION frame without headers"))
      [] OTHER ->
            IF ~hopt.none
            THEN Continue(hopt.val)
            ELSE Break(frame)

\* The closure given to loop_fn, applied to the frame recv_http_frame returned.
join_cont_step(hopt, frame) ==
    CASE frame.type = "Headers" ->
            IF ~hopt.none
            THEN Fail(Err("Other", "expecting CONTINUATION frame, got HEADERS"))
            ELSE IF is_set(frame.flags, FLAG_END_HEADERS)
                 THEN Break(frame)
                 ELSE Continue(ContinuableFrame("Headers", frame))
      [] frame.type = "PushPromise" ->
            IF ~hopt.none
            THEN Fail(Err("Other", "expecting CONTINUATION frame, got PUSH_PROMISE"))
            ELSE IF is_set(frame.flags, FLAG_END_HEADERS)
                 THEN Break(frame)
                 ELSE Continue(ContinuableFrame("PushPromise", frame))
      [] frame.type = "Continuation" ->
            IF ~hopt.none
            THEN IF get_stream_id(hopt.val) # frame.stream_id
                 THEN Fail(Err("Other", "CONTINUATION frame with different stream id"))
                 ELSE LET header_end == is_headers_end(frame)
                          h == extend_header_fragment(hopt.val, frame.header_fragment)
                      IN  IF header_end
                          THEN Break(into_frame(set_end_headers(h)))
                          ELSE Continue(h)
            ELSE Fail(Err("Other", "CONTINUATION frame without headers"))
      [] OTHER ->
            IF ~hopt.none
            THEN Fail(Err("Other", "expecting CONTINUATION frame"))
            ELSE Break(frame)

\* recv_settings_frame: the closure applied to the decoded frame.
settings_or_error(frame) ==
    IF frame.type = "Settings"
    THEN Ok(frame)
    ELSE Err("InvalidFrame", "unexpected frame, expected SETTINGS")

\* The closure letting a SETTINGS frame without ACK through.
ack_or_error_lenient(frame) == Ok(frame)

\* recv_settings_frame_ack: the closure applied to the SETTINGS frame.
ack_or_error(frame) ==
    IF is_ack(frame)
    THEN Ok(frame)
    ELSE Err("InvalidFrame", "expecting SETTINGS with ack, got without ack")

\* recv_settings_frame_set: the closure applied to the SETTINGS frame.
set_or_error(frame) ==
    IF ~is_ack(frame)
    THEN Ok(frame)
    ELSE Err("InvalidFrame", "expecting SETTINGS without ack, got with ack")

\* send_settings leaving server push enabled.
initial_settings_push_on == [ack |-> FALSE, settings |-> << <<SETTING_ENABLE_PUSH, 1>> >>]

\* send_settings: the frame it builds, SettingsFrame::new() with EnablePush(false).
initial_settings == [ack |-> FALSE, settings |-> << <<SETTING_ENABLE_PUSH, 0>> >>]

\* The closure accepting whatever was read.
check_preface_lenient(preface_buf) == Ok(<<>>)

\* The closure giving the TLS hint for a 0x16 anywhere in the buffer.
check_preface_hint_anywhere(preface_buf) ==
    IF preface_buf = PREFACE
    THEN Ok(<<>>)
    ELSE IF \E i \in 1..Len(preface_buf) : preface_buf[i] = TLS_HANDSHAKE_BYTE
         THEN Err("InvalidFrame", "wrong preface, likely TLS")
         ELSE Err("InvalidFrame", "wrong preface")

\* server_handshake: the closure applied to the 24 bytes read.
check_preface(preface_buf) ==
    IF preface_buf = PREFACE
    THEN Ok(<<>>)
    ELSE IF preface_buf[1] = TLS_HANDSHAKE_BYTE
         THEN Err("InvalidFrame", "wrong preface, likely TLS")
         ELSE Err("InvalidFrame", "wrong preface")

----------------------------------------------------------------------------
(* The state machine.                                                      *)

Init ==
    /\ op = "none"
    /\ max_frame_size = 0
    /\ pc = "idle"
    /\ raw_header = <<>>
    /\ header_opt = None
    /\ nframes = 0
    /\ frames = <<>>
    /\ returned = <<>>
    /\ rd = <<>>
    /\ wr = <<>>
    /\ log = <<>>
    /\ result = None
    \* Client::new has opened the first connection; its handshake has not run.
    /\ generation = 1
    /\ conn_state = "connecting"
    /\ next_stream_id = 1
    /\ streams = <<>>
    /\ goaway = None
    /\ peer_closed = FALSE
    /\ requests = <<>>
    /\ sent = <<>>

FrameReaders ==
    { "recv_raw_frame", "recv_http_frame", "recv_http_frame_join_cont",
      "recv_settings_frame", "recv_settings_frame_ack", "recv_settings_frame_set" }

\* A caller starts one of the frame-reading functions on the connection.
CallFrameReader ==
    /\ pc = "idle"
    /\ \E o \in FrameReaders, m \in MaxFrameSizes :
          /\ op' = o
          /\ max_frame_size' = m
    /\ pc' = "read_header"
    /\ UNCHANGED <<raw_header, header_opt, nframes, frames, returned, rd, wr, log, result>>
    /\ UNCHANGED clientVars

CallClientHandshake ==
    /\ pc = "idle"
    /\ op' = "client_handshake"
    /\ pc' = "write_preface"
    /\ UNCHANGED <<max_frame_size, returned, raw_header, header_opt, nframes, frames,
                   rd, wr, log, result>>
    /\ UNCHANGED clientVars

CallServerHandshake ==
    /\ pc = "idle"
    /\ op' = "server_handshake"
    /\ pc' = "read_preface"
    /\ UNCHANGED <<max_frame_size, returned, raw_header, header_opt, nframes, frames,
                   rd, wr, log, result>>
    /\ UNCHANGED clientVars

\* The size test refusing a frame of exactly max_frame_size.
too_large_inclusive(length, max) == length >= max

\* recv_raw_frame: the test made on the unpacked header.
\* The size check counting the header fragment accumulated so far.
too_large_accumulated(length, max) ==
    length + (IF header_opt.none THEN 0
              ELSE Len(header_opt.val.frame.header_fragment)) > max

too_large(length, max) == length > max

\* recv_raw_frame: read_exact of the header completes, then the first closure.
ReadHeaderFrom(peer_headers) ==
    /\ pc = "read_header"
    /\ nframes < MaxFrames
    /\ \E h \in peer_headers :
          /\ rd' = rd \o h
          /\ log' = Append(log, Read(FRAME_HEADER_LEN))
          /\ IF too_large(unpack_header(h).length, max_frame_size)
             THEN /\ pc' = "done"
                  /\ result' = Err("CodeError", "FrameSizeError")
                  /\ raw_header' = raw_header
             ELSE /\ pc' = "read_payload"
                  /\ result' = result
                  /\ raw_header' = h
    /\ UNCHANGED <<op, max_frame_size, returned, header_opt, nframes, frames, wr>>
    /\ UNCHANGED clientVars

ReadHeader == ReadHeaderFrom(RawHeaders)

\* recv_raw_frame: read_exact of the header fails after k bytes.
ReadHeaderFail ==
    /\ pc = "read_header"
    /\ \E k \in Truncations(FRAME_HEADER_LEN) :
          /\ rd' = rd \o Zeros(k)
          /\ log' = Append(log, Read(k))
    /\ pc' = "done"
    /\ result' = Err("IoError", "read")
    /\ UNCHANGED <<op, max_frame_size, returned, raw_header, header_opt, nframes, frames, wr>>
    /\ UNCHANGED clientVars

\* A short payload read that hands back the zero-filled buffer as a frame.
ReadPayloadFailPadded ==
    /\ pc = "read_payload"
    /\ \E k \in Truncations(unpack_header(raw_header).length) :
          /\ rd' = rd \o Zeros(k)
          /\ log' = Append(log, Read(k))
          /\ result' = Ok(raw_header \o Zeros(unpack_header(raw_header).length))
    /\ pc' = "done"
    /\ UNCHANGED <<op, max_frame_size, returned, raw_header, header_opt, nframes, frames, wr>>
    /\ UNCHANGED clientVars

\* recv_raw_frame: read_exact of the payload fails after k bytes.
ReadPayloadFail ==
    /\ pc = "read_payload"
    /\ \E k \in Truncations(unpack_header(raw_header).length) :
          /\ rd' = rd \o Zeros(k)
          /\ log' = Append(log, Read(k))
    /\ pc' = "done"
    /\ result' = Err("IoError", "read")
    /\ UNCHANGED <<op, max_frame_size, returned, raw_header, header_opt, nframes, frames, wr>>
    /\ UNCHANGED clientVars

\* recv_raw_frame: read_exact fills the rest of full_frame with payload p.
PayloadArrives(p) ==
    /\ pc = "read_payload"
    /\ p \in Payloads(raw_header)
    /\ rd' = rd \o p
    /\ log' = Append(log, Read(Len(p)))
    /\ nframes' = nframes + 1
    /\ UNCHANGED <<op, max_frame_size, returned, raw_header, wr>>

RecvRawFrame ==
    /\ op = "recv_raw_frame"
    /\ \E p \in AllPayloads :
          /\ PayloadArrives(p)
          /\ result' = Ok(raw_header \o p)
    /\ pc' = "done"
    /\ UNCHANGED <<header_opt, frames>>
    /\ UNCHANGED clientVars

RecvHttpFrame ==
    /\ op = "recv_http_frame"
    /\ \E p \in AllPayloads :
          /\ PayloadArrives(p)
          /\ LET d == from_raw(raw_header \o p)
             IN  /\ result' = d
                 /\ frames' = IF d.ok THEN Append(frames, d.val) ELSE frames
    /\ pc' = "done"
    /\ UNCHANGED header_opt
    /\ UNCHANGED clientVars

RecvHttpFrameJoinCont ==
    /\ op = "recv_http_frame_join_cont"
    /\ \E p \in AllPayloads :
          /\ PayloadArrives(p)
          /\ LET d == from_raw(raw_header \o p)
             IN  IF ~d.ok
                 THEN /\ pc' = "done"
                      /\ result' = d
                      /\ UNCHANGED <<header_opt, frames>>
                 ELSE LET s == join_cont_step(header_opt, d.val)
                      IN  /\ frames' = Append(frames, d.val)
                          /\ IF s.tag = "Continue"
                             THEN /\ pc' = "read_header"
                                  /\ header_opt' = s.val
                                  /\ result' = result
                             ELSE /\ pc' = "done"
                                  /\ header_opt' = header_opt
                                  /\ result' = IF s.tag = "Break" THEN Ok(s.val)
                                                                  ELSE s.val
    /\ UNCHANGED clientVars

RecvSettingsFrame ==
    /\ op = "recv_settings_frame"
    /\ \E p \in AllPayloads :
          /\ PayloadArrives(p)
          /\ LET d == from_raw(raw_header \o p)
             IN  /\ result' = IF d.ok THEN settings_or_error(d.val) ELSE d
                 /\ frames' = IF d.ok THEN Append(frames, d.val) ELSE frames
    /\ pc' = "done"
    /\ UNCHANGED header_opt
    /\ UNCHANGED clientVars

RecvSettingsFrameAck ==
    /\ op = "recv_settings_frame_ack"
    /\ \E p \in AllPayloads :
          /\ PayloadArrives(p)
          /\ LET d == from_raw(raw_header \o p)
                 f == IF d.ok THEN settings_or_error(d.val) ELSE d
             IN  /\ result' = IF f.ok THEN ack_or_error(f.val) ELSE f
                 /\ frames' = IF d.ok THEN Append(frames, d.val) ELSE frames
    /\ pc' = "done"
    /\ UNCHANGED header_opt
    /\ UNCHANGED clientVars

RecvSettingsFrameSet ==
    /\ op = "recv_settings_frame_set"
    /\ \E p \in AllPayloads :
          /\ PayloadArrives(p)
          /\ LET d == from_raw(raw_header \o p)
                 f == IF d.ok THEN settings_or_error(d.val) ELSE d
             IN  /\ result' = IF f.ok THEN set_or_error(f.val) ELSE f
                 /\ frames' = IF d.ok THEN Append(frames, d.val) ELSE frames
    /\ pc' = "done"
    /\ UNCHANGED header_opt
    /\ UNCHANGED clientVars

\* client_handshake: write_all(conn, PREFACE) completes.
ClientWritePreface ==
    /\ pc = "write_preface"
    /\ wr' = wr \o PREFACE
    /\ log' = Append(log, Write(Len(PREFACE)))
    /\ pc' = "send_settings"
    /\ UNCHANGED <<op, max_frame_size, returned, raw_header, header_opt, nframes, frames,
                   rd, result>>
    /\ UNCHANGED clientVars

\* client_handshake: write_all(conn, PREFACE) fails after k bytes.
ClientWritePrefaceFail ==
    /\ pc = "write_preface"
    /\ \E k \in Truncations(Len(PREFACE)) :
          /\ wr' = wr \o SubSeq(PREFACE, 1, k)
          /\ log' = Append(log, Write(k))
    /\ pc' = "done"
    /\ result' = Err("IoError", "write")
    /\ UNCHANGED <<op, max_frame_size, returned, raw_header, header_opt, nframes, frames, rd>>
    /\ UNCHANGED clientVars

\* server_handshake: read_exact of the preface completes, then the closure.
ServerReadPreface ==
    /\ pc = "read_preface"
    /\ \E b \in Prefaces :
          /\ rd' = rd \o b
          /\ log' = Append(log, Read(Len(b)))
          /\ LET c == check_preface(b)
             IN  IF c.ok
                 THEN pc' = "send_settings" /\ result' = result
                 ELSE pc' = "done" /\ result' = c
    /\ UNCHANGED <<op, max_frame_size, returned, raw_header, header_opt, nframes, frames, wr>>
    /\ UNCHANGED clientVars

\* server_handshake: read_exact of the preface fails after k bytes.
ServerReadPrefaceFail ==
    /\ pc = "read_preface"
    /\ \E k \in Truncations(Len(PREFACE)) :
          /\ rd' = rd \o SubSeq(PREFACE, 1, k)
          /\ log' = Append(log, Read(k))
    /\ pc' = "done"
    /\ result' = Err("IoError", "read")
    /\ UNCHANGED <<op, max_frame_size, returned, raw_header, header_opt, nframes, frames, wr>>
    /\ UNCHANGED clientVars

\* send_settings followed by a wait for the peer's SETTINGS ack.
SendSettingsAwaitingAck ==
    /\ pc = "send_settings"
    /\ LET buf == serialize_into_vec(initial_settings)
           ack == <<0, 0, 0, TYPE_SETTINGS, FLAG_ACK, 0, 0, 0, 0>>
       IN  /\ wr' = wr \o buf
           /\ rd' = rd \o ack
           /\ log' = log \o << Write(Len(buf)), Read(FRAME_HEADER_LEN), Read(0) >>
           /\ frames' = Append(frames, from_raw(ack).val)
    /\ nframes' = nframes + 1
    /\ pc' = "done"
    /\ result' = Ok(<<>>)
    /\ UNCHANGED <<op, max_frame_size, returned, raw_header, header_opt>>
    /\ UNCHANGED clientVars

\* send_settings: send_frame serializes the frame and write_all completes.
SendSettings ==
    /\ pc = "send_settings"
    /\ LET buf == serialize_into_vec(initial_settings)
       IN  /\ wr' = wr \o buf
           /\ log' = Append(log, Write(Len(buf)))
    /\ pc' = "done"
    /\ result' = Ok(<<>>)
    /\ UNCHANGED <<op, max_frame_size, returned, raw_header, header_opt, nframes, frames, rd>>
    /\ UNCHANGED clientVars

\* send_settings: write_all fails after k bytes.
SendSettingsFail ==
    /\ pc = "send_settings"
    /\ LET buf == serialize_into_vec(initial_settings)
       IN  \E k \in Truncations(Len(buf)) :
              /\ wr' = wr \o SubSeq(buf, 1, k)
              /\ log' = Append(log, Write(k))
    /\ pc' = "done"
    /\ result' = Err("IoError", "write")
    /\ UNCHANGED <<op, max_frame_size, returned, raw_header, header_opt, nframes, frames, rd>>
    /\ UNCHANGED clientVars

Next ==
    \/ CallFrameReader
    \/ CallClientHandshake
    \/ CallServerHandshake
    \/ ReadHeader
    \/ ReadHeaderFail
    \/ ReadPayloadFail
    \/ RecvRawFrame
    \/ RecvHttpFrame
    \/ RecvHttpFrameJoinCont
    \/ RecvSettingsFrame
    \/ RecvSettingsFrameAck
    \/ RecvSettingsFrameSet
    \/ ClientWritePreface
    \/ ClientWritePrefaceFail
    \/ ServerReadPreface
    \/ ServerReadPrefaceFail
    \/ SendSettings
    \/ SendSettingsFail

Spec == Init /\ [][Next]_vars

\* The reactor polls a pending read again whenever the input delivers bytes or
\* ends, and a finite input ends: no read stays pending forever.
FairSpec == Spec /\ WF_vars(Next)

----------------------------------------------------------------------------
(* Successive calls of recv_http_frame_join_cont on one connection, the    *)
(* peer sending HEADERS, CONTINUATION and DATA frames.                     *)

SequenceHeaders ==
    { <<0, 0, Len(p), t, f>> \o s :
        p \in Frags, t \in { TYPE_HEADERS, TYPE_CONTINUATION, TYPE_DATA },
        f \in { 0, FLAG_END_HEADERS }, s \in { <<0, 0, 0, 1>>, <<0, 0, 0, 3>> } }

Returned(f, n) == [frame |-> f, upto |-> n]

CallJoinCont ==
    /\ pc = "idle"
    /\ op' = "recv_http_frame_join_cont"
    /\ max_frame_size' = 1
    /\ pc' = "read_header"
    /\ UNCHANGED <<raw_header, header_opt, nframes, frames, returned, rd, wr, log, result>>
    /\ UNCHANGED clientVars

\* A new call that finds the loop state of the call before it.
CallAgainKeepingState ==
    /\ op = "recv_http_frame_join_cont"
    /\ pc = "done"
    /\ result.ok
    /\ nframes < MaxFrames
    /\ returned' = Append(returned, Returned(result.val, nframes))
    /\ result' = None
    /\ pc' = "read_header"
    /\ UNCHANGED <<op, max_frame_size, raw_header, header_opt, nframes, frames,
                   rd, wr, log>>
    /\ UNCHANGED clientVars

\* The caller takes the frame and the reader a call returned and calls again:
\* loop_fn starts from (read, None).
CallAgain ==
    /\ op = "recv_http_frame_join_cont"
    /\ pc = "done"
    /\ result.ok
    /\ nframes < MaxFrames
    /\ returned' = Append(returned, Returned(result.val, nframes))
    /\ header_opt' = None
    /\ result' = None
    /\ pc' = "read_header"
    /\ UNCHANGED <<op, max_frame_size, raw_header, nframes, frames, rd, wr, log>>
    /\ UNCHANGED clientVars

ReadSequenceHeader == ReadHeaderFrom(SequenceHeaders)

StreamNext ==
    \/ CallJoinCont
    \/ CallAgain
    \/ ReadSequenceHeader
    \/ ReadHeaderFail
    \/ ReadPayloadFail
    \/ RecvHttpFrameJoinCont

StreamSpec == Init /\ [][StreamNext]_vars

----------------------------------------------------------------------------
(* The client and its connection engine, as tests/test_client.rs drives    *)
(* them: requests, the stream table, the peer's answers, the state dump    *)
(* and the reconnect.  The peer answers only streams the client opened;   *)
(* its SETTINGS and their acknowledgement are left out.                    *)

\* Error codes the peer resets a stream with.
PeerCodes == { "InadequateSecurity", "ProtocolError" }

CodeError(code) == Err("CodeError", code)

\* One thing the client wrote to a connection.
Item(type, stream_id, code, bytes) ==
    [type |-> type, stream_id |-> stream_id, code |-> code, bytes |-> bytes]

Emit(items) == sent' = sent \o items

\* A request: the connection and stream that carry it (stream 0 while it
\* waits for a connection), whether its handle was dropped, what the peer
\* sent for it, and what the collected response future gave.
Request(connection, stream_id) ==
    [connection |-> connection, stream_id |-> stream_id, dropped |-> FALSE,
     headers |-> FALSE, end_stream |-> FALSE, reset |-> None, result |-> None]

\* Stream ids the client has opened on the connection.
OpenedIds == { i \in 1..(next_stream_id - 1) : i % 2 = 1 }

\* The request carried by stream id of the connection.
RequestOf(id) ==
    CHOOSE i \in 1..Len(requests) :
        requests[i].connection = generation /\ requests[i].stream_id = id

\* Stream allocation handing out the same id again.
advance_stream_id_reusing(id) == id

\* Stream allocation: the connection advances to the next id of its parity.
advance_stream_id(id) == id + 2

\* A request's headers (and body) are written: the stream is half closed (local).
insert_stream(table, id) ==
    [i \in DOMAIN table \cup {id} |-> IF i = id THEN "HalfClosedLocal" ELSE table[i]]

\* A closed stream kept in the table.
remove_stream_keeping(table, id) == table

\* A stream that reached Closed leaves the table.
remove_stream(table, id) == [i \in DOMAIN table \ {id} |-> table[i]]

\* A reset reported as a cancellation whatever the peer's code.
rst_error_cancel(code) == CodeError("Cancel")

\* What the application sees of a stream the peer reset.
rst_error(code) == CodeError(code)

\* Client::dump_state: the stream table of a live connection; the query
\* changes nothing.
dump_state ==
    IF conn_state = "connected" THEN Ok(streams)
    ELSE Err("Other", "connection died")

\* A new connection that goes on with the stream ids of the one before.
NewConnectionKeepingIds ==
    /\ generation < MaxConnections
    /\ generation' = generation + 1
    /\ conn_state' = "connecting"
    /\ streams' = <<>>
    /\ goaway' = None
    /\ peer_closed' = FALSE
    /\ sent' = <<>>
    /\ UNCHANGED next_stream_id

\* The client opens a new connection: a new engine with an empty stream table.
NewConnection ==
    /\ generation < MaxConnections
    /\ generation' = generation + 1
    /\ conn_state' = "connecting"
    /\ next_stream_id' = 1
    /\ streams' = <<>>
    /\ goaway' = None
    /\ peer_closed' = FALSE
    /\ sent' = <<>>

\* client_handshake on the new connection: the preface, then SETTINGS.
ClientConnect ==
    /\ conn_state = "connecting"
    /\ Emit(<< Item("Preface", 0, "", PREFACE),
               Item("Settings", 0, "", serialize_into_vec(initial_settings)) >>)
    /\ conn_state' = "connected"
    /\ UNCHANGED <<generation, next_stream_id, streams, goaway, peer_closed,
                   requests>>
    /\ UNCHANGED framerVars

\* The engine reserves the next stream id for request i and writes its HEADERS.
OpenStream(i) ==
    /\ streams' = insert_stream(streams, next_stream_id)
    /\ next_stream_id' = advance_stream_id(next_stream_id)
    /\ Emit(<< Item("Headers", next_stream_id, "", <<>>) >>)
    /\ requests' = [requests EXCEPT ![i].stream_id = next_stream_id]

\* Requests of the connection that wait to be sent.
Queued ==
    { i \in 1..Len(requests) :
        /\ requests[i].connection = generation
        /\ requests[i].stream_id = 0
        /\ requests[i].result = None
        /\ ~requests[i].dropped }

\* Client::start_get / start_post: the request goes to the connection task,
\* behind the requests that wait; a dead connection is replaced first.
start_request ==
    /\ Len(requests) < MaxRequests
    /\ CASE conn_state = "connected" /\ goaway.none /\ Queued = {} ->
              /\ streams' = insert_stream(streams, next_stream_id)
              /\ next_stream_id' = advance_stream_id(next_stream_id)
              /\ Emit(<< Item("Headers", next_stream_id, "", <<>>) >>)
              /\ requests' = Append(requests, Request(generation, next_stream_id))
              /\ UNCHANGED <<generation, conn_state, goaway, peer_closed>>
         [] conn_state = "connected" /\ ~goaway.none ->
              /\ requests' = Append(requests,
                    [Request(generation, 0) EXCEPT !.result = CodeError("RefusedStream")])
              /\ UNCHANGED <<generation, conn_state, next_stream_id, streams,
                             goaway, peer_closed, sent>>
         [] \/ conn_state = "connecting"
            \/ conn_state = "connected" /\ goaway.none /\ Queued # {} ->
              /\ requests' = Append(requests, Request(generation, 0))
              /\ UNCHANGED <<generation, conn_state, next_stream_id, streams,
                             goaway, peer_closed, sent>>
         [] conn_state = "dead" ->
              /\ NewConnection
              /\ requests' = Append(requests, Request(generation + 1, 0))
    /\ UNCHANGED framerVars

\* A request that waited for the connection is sent once the handshake is
\* done, or refused when GOAWAY came first.
SendQueued ==
    /\ conn_state = "connected"
    /\ \E i \in Queued :
          /\ \A j \in Queued : i <= j
          /\ IF goaway.none
             THEN OpenStream(i)
             ELSE /\ requests' = [requests EXCEPT ![i].result = CodeError("RefusedStream")]
                  /\ UNCHANGED <<next_stream_id, streams, sent>>
    /\ UNCHANGED <<generation, conn_state, goaway, peer_closed>>
    /\ UNCHANGED framerVars

\* Client::wait_for_connect after the connection died.
wait_for_connect ==
    /\ conn_state = "dead"
    /\ NewConnection
    /\ UNCHANGED requests
    /\ UNCHANGED framerVars

\* The application drops the handle of a request that has not completed: the
\* engine cancels its stream with RST_STREAM(CANCEL).
DropRequest ==
    /\ \E i \in 1..Len(requests) :
          /\ requests[i].result = None
          /\ ~requests[i].dropped
          /\ requests' = [requests EXCEPT ![i].dropped = TRUE]
          /\ IF /\ requests[i].connection = generation
                /\ requests[i].stream_id \in DOMAIN streams
             THEN /\ Emit(<< Item("RstStream", requests[i].stream_id, "Cancel", <<>>) >>)
                  /\ streams' = remove_stream(streams, requests[i].stream_id)
             ELSE UNCHANGED <<sent, streams>>
    /\ UNCHANGED <<generation, conn_state, next_stream_id, goaway, peer_closed>>
    /\ UNCHANGED framerVars

\* The peer's frames reach a live connection.
Receiving == conn_state = "connected" /\ ~peer_closed

\* Response HEADERS on stream id, with or without END_STREAM.
PeerHeaders ==
    /\ Receiving
    /\ \E id \in OpenedIds, end \in BOOLEAN :
          LET i == RequestOf(id)
          IN  /\ ~requests[i].end_stream
              /\ IF id \in DOMAIN streams
                 THEN /\ requests' = [requests EXCEPT
                            ![i].headers = TRUE,
                            ![i].end_stream = end,
                            ![i].result = IF end THEN Ok(<<>>) ELSE @]
                      /\ streams' = IF end THEN remove_stream(streams, id) ELSE streams
                 ELSE /\ requests' = [requests EXCEPT ![i].end_stream = end]
                      /\ UNCHANGED streams
    /\ UNCHANGED <<generation, conn_state, next_stream_id, goaway, peer_closed,
                   sent>>
    /\ UNCHANGED framerVars

\* Response DATA with END_STREAM on stream id, after its HEADERS.
PeerData ==
    /\ Receiving
    /\ \E id \in OpenedIds :
          LET i == RequestOf(id)
          IN  /\ ~requests[i].end_stream
              /\ IF id \in DOMAIN streams
                 THEN /\ requests[i].headers
                      /\ requests' = [requests EXCEPT ![i].end_stream = TRUE,
                                                      ![i].result = Ok(<<>>)]
                      /\ streams' = remove_stream(streams, id)
                 ELSE /\ requests' = [requests EXCEPT ![i].end_stream = TRUE]
                      /\ UNCHANGED streams
    /\ UNCHANGED <<generation, conn_state, next_stream_id, goaway, peer_closed,
                   sent>>
    /\ UNCHANGED framerVars

\* RST_STREAM(id, code): the stream is closed with the code and the
\* application is told; on a stream already closed the frame has no effect.
PeerRstStream ==
    /\ Receiving
    /\ \E id \in DOMAIN streams, code \in PeerCodes :
          /\ requests' = [requests EXCEPT ![RequestOf(id)].reset = Some(code),
                                          ![RequestOf(id)].result = rst_error(code)]
          /\ streams' = remove_stream(streams, id)
    /\ UNCHANGED <<generation, conn_state, next_stream_id, goaway, peer_closed,
                   sent>>
    /\ UNCHANGED framerVars

\* GOAWAY(last-stream-id), the peer having processed every stream opened:
\* recorded; the streams in flight go on.
PeerGoaway ==
    /\ Receiving
    /\ goaway.none
    /\ goaway' = Some(IF next_stream_id = 1 THEN 0 ELSE next_stream_id - 2)
    /\ UNCHANGED <<generation, conn_state, next_stream_id, streams, peer_closed,
                   requests, sent>>
    /\ UNCHANGED framerVars

\* The peer closes the socket.
PeerClose ==
    /\ Receiving
    /\ peer_closed' = TRUE
    /\ UNCHANGED <<generation, conn_state, next_stream_id, streams, goaway,
                   requests, sent>>
    /\ UNCHANGED framerVars

\* The connection task ends: the socket was closed by the peer, or GOAWAY was
\* received and no stream is left.  Requests still in flight fail.
ConnectionEnds ==
    /\ conn_state = "connected"
    /\ peer_closed \/ (~goaway.none /\ DOMAIN streams = {})
    /\ conn_state' = "dead"
    /\ streams' = <<>>
    /\ requests' = [i \in 1..Len(requests) |->
                        IF /\ requests[i].connection = generation
                           /\ requests[i].result = None
                        THEN [requests[i] EXCEPT !.result = Err("IoError", "connection died")]
                        ELSE requests[i]]
    /\ UNCHANGED <<generation, next_stream_id, goaway, peer_closed, sent>>
    /\ UNCHANGED framerVars

ClientNext ==
    \/ ClientConnect
    \/ start_request
    \/ SendQueued
    \/ wait_for_connect
    \/ DropRequest
    \/ PeerHeaders
    \/ PeerData
    \/ PeerRstStream
    \/ PeerGoaway
    \/ PeerClose
    \/ ConnectionEnds

ClientSpec == Init /\ [][ClientNext]_vars

\* The connection task is polled when its socket reaches end of input.
FairClientSpec == ClientSpec /\ WF_vars(ConnectionEnds)

----------------------------------------------------------------------------
(* Vocabulary of the properties.                                           *)

Done == pc = "done"

Succeeded == Done /\ result.ok

Failed == Done /\ ~result.ok

Join == op = "recv_http_frame_join_cont"

IsPrefix(a, b) == Len(a) <= Len(b) /\ a = SubSeq(b, 1, Len(a))

RECURSIVE ConcatFragments(_)
ConcatFragments(fs) ==
    IF fs = <<>> THEN <<>>
    ELSE Head(fs).header_fragment \o ConcatFragments(Tail(fs))

Continuable(f) == f.type \in {"Headers", "PushPromise"}

\* Every frame read so far was decoded.
AllDecoded == nframes = Len(frames)

\* The frames read are an initiator without END_HEADERS followed by k >= 1
\* CONTINUATION frames on its stream, only the last one with END_HEADERS.
HeaderSequenceRead ==
    /\ Join
    /\ AllDecoded
    /\ Len(frames) >= 2
    /\ Continuable(frames[1])
    /\ ~is_set(frames[1].flags, FLAG_END_HEADERS)
    /\ \A i \in 2..Len(frames) :
          /\ frames[i].type = "Continuation"
          /\ frames[i].stream_id = frames[1].stream_id
          /\ is_set(frames[i].flags, FLAG_END_HEADERS) <=> i = Len(frames)

\* C1: a HEADERS or PUSH_PROMISE without END_HEADERS followed by k >= 1
\* CONTINUATION frames on the same stream, the last with END_HEADERS, is
\* returned as one frame whose fragment is the fragments concatenated in wire
\* order and whose END_HEADERS flag is set.
C1_JoinedFragment ==
    HeaderSequenceRead =>
        /\ Succeeded
        /\ result.val.header_fragment = ConcatFragments(frames)
        /\ is_set(result.val.flags, FLAG_END_HEADERS)

C1_Witness ==
    /\ HeaderSequenceRead
    /\ Len(frames) = 3
    /\ Succeeded
    /\ result.val.header_fragment = <<1, 2, 1>>

\* The last frame read breaks the CONTINUATION sequencing: (a) a CONTINUATION
\* on another stream while a sequence is pending, (b) any other frame while a
\* sequence is pending, (c) a CONTINUATION while none is pending.  A sequence
\* is pending exactly when frames were read before the last one.
SequencingViolation ==
    /\ Join
    /\ AllDecoded
    /\ Len(frames) >= 1
    /\ LET f == frames[Len(frames)]
           pending == Len(frames) >= 2
       IN  \/ pending /\ f.type = "Continuation" /\ f.stream_id # frames[1].stream_id
           \/ pending /\ f.type # "Continuation"
           \/ ~pending /\ f.type = "Continuation"

\* C2: every CONTINUATION-sequencing violation ends the call with the
\* connection error PROTOCOL_ERROR, and no frame is returned.
C2_ViolationIsProtocolError ==
    SequencingViolation =>
        /\ Failed
        /\ result.kind = "CodeError"
        /\ result.detail = "ProtocolError"

\* C3: a frame returned by recv_http_frame_join_cont is never a CONTINUATION,
\* and a returned HEADERS or PUSH_PROMISE has END_HEADERS set.
C3_ContinuationHidden ==
    Join /\ Succeeded =>
        /\ result.val.type # "Continuation"
        /\ Continuable(result.val) => is_set(result.val.flags, FLAG_END_HEADERS)

C3_Witness ==
    /\ Join
    /\ Succeeded
    /\ Len(frames) >= 2
    /\ result.val.type = "PushPromise"

\* C4: recv_raw_frame reads the 9 header bytes first; a length above
\* max_frame_size fails with FRAME_SIZE_ERROR and no payload byte is read; a
\* length up to max_frame_size (equal and zero included) makes it read exactly
\* that many further bytes and return a frame of 9 + length bytes.
C4_RawFrameLength ==
    op = "recv_raw_frame" /\ log # <<>> =>
        /\ log[1].io = "read"
        /\ Len(rd) < FRAME_HEADER_LEN => Len(log) = 1
        /\ Len(log) = 1 /\ Len(rd) < FRAME_HEADER_LEN => Failed /\ result.kind = "IoError"
        /\ Len(rd) >= FRAME_HEADER_LEN =>
              LET length == unpack_header(SubSeq(rd, 1, FRAME_HEADER_LEN)).length
              IN  IF length > max_frame_size
                  THEN /\ Failed
                       /\ result.kind = "CodeError"
                       /\ result.detail = "FrameSizeError"
                       /\ Len(rd) = FRAME_HEADER_LEN
                  ELSE /\ Len(rd) <= FRAME_HEADER_LEN + length
                       /\ Failed => result.kind = "IoError"
                                    /\ Len(rd) < FRAME_HEADER_LEN + length
                       /\ Succeeded => /\ result.val = rd
                                       /\ Len(result.val) = FRAME_HEADER_LEN + length
                       /\ Len(log) = 2 /\ log[2].n = length => Succeeded

C4_Witness ==
    /\ op = "recv_raw_frame"
    /\ Succeeded
    /\ max_frame_size > 0
    /\ Len(result.val) = FRAME_HEADER_LEN + max_frame_size

\* The 24 bytes were read and are not the preface.
PrefaceMismatch ==
    /\ op = "server_handshake"
    /\ Len(rd) = Len(PREFACE)
    /\ rd # PREFACE

\* C5: server_handshake reads exactly 24 bytes and fails with PROTOCOL_ERROR
\* when they differ from the preface in any byte.
C5_MismatchIsProtocolError ==
    PrefaceMismatch =>
        /\ log = << Read(24) >>
        /\ Failed
        /\ result.kind = "CodeError"
        /\ result.detail = "ProtocolError"

\* The bytes of a SETTINGS frame without ACK holding ENABLE_PUSH = 0.
EnablePushOffFrame == << 0, 0, 6, 4, 0, 0, 0, 0, 0, 0, 2, 0, 0, 0, 0 >>

\* C6: server_handshake writes only after it has read the 24 preface bytes
\* and found them equal to the preface: nothing is written when the preface
\* mismatches or its read fails, and a successful run has exactly one write,
\* the SETTINGS frame, after the read.
C6_ServerWritesAfterPreface ==
    op = "server_handshake" =>
        /\ \A i \in 1..Len(log) :
              log[i].io = "write" => i = 2 /\ log[1] = Read(24) /\ rd = PREFACE
        /\ rd # PREFACE => wr = <<>>
        /\ Done /\ rd # PREFACE => ~result.ok
        /\ Succeeded => /\ log = << Read(24), Write(Len(EnablePushOffFrame)) >>
                        /\ wr = EnablePushOffFrame

C6_Witness ==
    /\ op = "server_handshake"
    /\ Succeeded
    /\ wr # <<>>

\* C7: client_handshake writes the whole preface, then one SETTINGS frame
\* without ACK holding ENABLE_PUSH = 0, and nothing else; when the preface
\* write fails no SETTINGS frame is written.
C7_ClientWritesPrefaceThenSettings ==
    op = "client_handshake" =>
        /\ IsPrefix(wr, PREFACE \o EnablePushOffFrame)
        /\ \A i \in 1..Len(log) : log[i].io = "write"
        /\ Len(log) <= 2
        /\ Len(log) = 2 => log[1] = Write(Len(PREFACE))
        /\ Len(log) >= 1 /\ log[1].n < Len(PREFACE) => Failed /\ Len(log) = 1
        /\ Succeeded => /\ wr = PREFACE \o EnablePushOffFrame
                        /\ log = << Write(Len(PREFACE)), Write(Len(EnablePushOffFrame)) >>

C7_Witness ==
    /\ op = "client_handshake"
    /\ Succeeded
    /\ Len(wr) = Len(PREFACE) + Len(EnablePushOffFrame)

Handshake == op \in {"client_handshake", "server_handshake"}

\* C8: a handshake does not complete successfully before a SETTINGS frame
\* with the ACK flag has been read.
C8_AckReadBeforeEstablished ==
    Handshake /\ Succeeded =>
        \E i \in 1..Len(frames) : frames[i].type = "Settings" /\ is_ack(frames[i])

\* C8 as amended: a handshake completes successfully once its SETTINGS frame
\* is written, having read no frame at all: the client has read nothing, the
\* server only the preface.
C8_HandshakeReadsNoFrame ==
    Handshake /\ Succeeded =>
        /\ nframes = 0
        /\ frames = <<>>
        /\ rd = IF op = "client_handshake" THEN <<>> ELSE PREFACE
        /\ log[Len(log)] = Write(Len(EnablePushOffFrame))

C8_Witness ==
    /\ op = "client_handshake"
    /\ Succeeded
    /\ rd = <<>>
    /\ log[Len(log)].io = "write"

\* C9: the error for a rejected preface hints "likely TLS" exactly when the
\* first of the 24 bytes is 0x16.
C9_TlsHint ==
    PrefaceMismatch =>
        /\ Failed
        /\ rd[1] = 22 => result.detail = "wrong preface, likely TLS"
        /\ rd[1] # 22 => result.detail = "wrong preface"

C9_Witness ==
    /\ PrefaceMismatch
    /\ Failed
    /\ rd[1] = 22
    /\ result.detail = "wrong preface, likely TLS"

\* C10: recv_settings_frame_set and recv_settings_frame_ack read one frame;
\* the first succeeds exactly when it is SETTINGS without ACK, the second
\* exactly when it is SETTINGS with ACK, returning that frame; any other frame
\* is an error.
C10_SettingsFirst ==
    op \in {"recv_settings_frame_set", "recv_settings_frame_ack"} =>
        /\ nframes <= 1
        /\ Succeeded => nframes = 1 /\ Len(frames) = 1 /\ result.val = frames[1]
        /\ Done /\ nframes = 1 /\ frames = <<>> => ~result.ok
        /\ Done /\ Len(frames) = 1 =>
              (result.ok <=>
                  /\ frames[1].type = "Settings"
                  /\ is_set(frames[1].flags, 1) <=> op = "recv_settings_frame_ack")

C10_Witness ==
    /\ op = "recv_settings_frame_ack"
    /\ Succeeded
    /\ result.val.type = "Settings"
    /\ is_set(result.val.flags, 1)

\* One frame was read with no sequence pending, and it is a HEADERS or
\* PUSH_PROMISE with END_HEADERS or of a type other than HEADERS,
\* PUSH_PROMISE and CONTINUATION.
PassThroughInput ==
    /\ Join
    /\ AllDecoded
    /\ Len(frames) = 1
    /\ \/ Continuable(frames[1]) /\ is_set(frames[1].flags, FLAG_END_HEADERS)
       \/ frames[1].type \notin {"Headers", "PushPromise", "Continuation"}

\* C15: with no sequence pending, a HEADERS or PUSH_PROMISE with END_HEADERS
\* and every frame of another type than HEADERS, PUSH_PROMISE and
\* CONTINUATION, unknown types included, is returned unchanged after exactly
\* one frame was consumed.
C15_PassThrough ==
    PassThroughInput =>
        /\ Succeeded
        /\ result.val = frames[1]
        /\ result.val = from_raw(rd).val
        /\ nframes = 1
        /\ Len(log) = 2
        /\ Len(rd) = FRAME_HEADER_LEN + log[2].n

C15_Witness ==
    /\ PassThroughInput
    /\ Succeeded
    /\ result.val.type = "Unknown"
    /\ result.val.body # <<>>

\* C16: joining changes only the fragment and the END_HEADERS flag of the
\* initiating frame: variant, stream id, promised stream id and the other
\* flags are the initiator's, whatever flags the CONTINUATION frames carry.
C16_JoinKeepsInitiator ==
    HeaderSequenceRead =>
        /\ Succeeded
        /\ result.val =
              [frames[1] EXCEPT !.header_fragment = ConcatFragments(frames),
                                !.flags = @ + FLAG_END_HEADERS]

C16_Witness ==
    /\ HeaderSequenceRead
    /\ Succeeded
    /\ frames[1].type = "PushPromise"
    /\ frames[1].flags = 1
    /\ frames[2].flags = 1
    /\ result.val.type = "PushPromise"
    /\ result.val.promised_stream_id = 2
    /\ result.val.flags = 5

\* The raw frames that bytes b hold, a trailing incomplete frame left out.
RECURSIVE SplitFrames(_)
SplitFrames(b) ==
    IF Len(b) < FRAME_HEADER_LEN THEN <<>>
    ELSE LET n == FRAME_HEADER_LEN + unpack_header(SubSeq(b, 1, FRAME_HEADER_LEN)).length
         IN  IF Len(b) < n THEN <<>>
             ELSE <<SubSeq(b, 1, n)>> \o SplitFrames(BytesAfter(b, n))

\* A frame the loop passes through when no sequence is pending.
PassesThrough(f) ==
    \/ Continuable(f) /\ is_set(f.flags, FLAG_END_HEADERS)
    \/ f.type \notin {"Headers", "PushPromise", "Continuation"}

\* fs is one pass-through frame, or an initiator with its CONTINUATION run.
IsRun(fs) ==
    \/ Len(fs) = 1 /\ PassesThrough(fs[1])
    \/ /\ Len(fs) >= 2
       /\ Continuable(fs[1])
       /\ ~is_set(fs[1].flags, FLAG_END_HEADERS)
       /\ \A i \in 2..Len(fs) :
             /\ fs[i].type = "Continuation"
             /\ fs[i].stream_id = fs[1].stream_id
             /\ is_set(fs[i].flags, FLAG_END_HEADERS) <=> i = Len(fs)

\* The run folded into its first frame.
FoldRun(fs) ==
    IF Len(fs) = 1 THEN fs[1]
    ELSE [fs[1] EXCEPT !.header_fragment = ConcatFragments(fs),
                       !.flags = @ + FLAG_END_HEADERS]

\* What the calls made so far returned, the current call's result included.
Outcomes ==
    IF Succeeded THEN Append(returned, Returned(result.val, nframes)) ELSE returned

\* The frames the i-th call consumed.
Consumed(i) ==
    SubSeq(frames, IF i = 1 THEN 1 ELSE Outcomes[i - 1].upto + 1, Outcomes[i].upto)

\* A call was started and has read nothing yet.
CallStarts ==
    /\ pc = "read_header"
    /\ nframes = IF returned = <<>> THEN 0 ELSE returned[Len(returned)].upto

\* C17: successive calls on one connection are independent and keep the wire
\* order: each call starts with no sequence pending, each successful call
\* consumed one pass-through frame or an initiator with its k CONTINUATION
\* frames and returned them folded into one frame, and after a successful
\* call the bytes read are exactly the frames consumed.
C17_SuccessiveCalls ==
    Join =>
        /\ CallStarts => header_opt.none
        /\ \A i \in 1..Len(Outcomes) :
              /\ IsRun(Consumed(i))
              /\ Outcomes[i].frame = FoldRun(Consumed(i))
        /\ Succeeded =>
              /\ AllDecoded
              /\ Len(SplitFrames(rd)) = nframes
              /\ \A j \in 1..nframes : from_raw(SplitFrames(rd)[j]) = Ok(frames[j])
        /\ Done /\ AllDecoded /\ returned # <<>>
              /\ IsRun(SubSeq(frames, returned[Len(returned)].upto + 1, Len(frames)))
              => Succeeded

C17_Witness ==
    /\ Join
    /\ Succeeded
    /\ Len(returned) = 1
    /\ returned[1].upto = 2
    /\ returned[1].frame.header_fragment = <<1, 2>>
    /\ result.val.type = "Data"
    /\ nframes = 3

\* Bytes b are whole raw frames and nothing else.
RECURSIVE WholeFrames(_)
WholeFrames(b) ==
    \/ b = <<>>
    \/ /\ Len(b) >= FRAME_HEADER_LEN
       /\ LET n == FRAME_HEADER_LEN + unpack_header(SubSeq(b, 1, FRAME_HEADER_LEN)).length
          IN  Len(b) >= n /\ WholeFrames(BytesAfter(b, n))

\* The frames fs are an initiator and CONTINUATION frames on its stream, none
\* of them with END_HEADERS: the header block is not complete.
PendingSequence(fs) ==
    /\ fs # <<>>
    /\ Continuable(fs[1])
    /\ \A i \in 1..Len(fs) :
          /\ ~is_set(fs[i].flags, FLAG_END_HEADERS)
          /\ i > 1 => fs[i].type = "Continuation" /\ fs[i].stream_id = fs[1].stream_id

\* The loop is about to read another frame.
LoopReads == Join /\ pc = "read_header"

\* C18: recv_http_frame_join_cont terminates on every finite input.  Whenever
\* the loop reads again it has consumed whole frames only, one per iteration,
\* and every frame so far left the header block pending (an initiator without
\* END_HEADERS, then CONTINUATION frames on its stream without END_HEADERS);
\* a call that ends while the block is pending ends with an error, a call
\* that succeeds never returns a header frame without END_HEADERS; and every
\* call ends.
C18_Terminates ==
    /\ [](LoopReads =>
            /\ AllDecoded
            /\ WholeFrames(rd)
            /\ Len(SplitFrames(rd)) = nframes
            /\ Len(log) = 2 * nframes
            /\ nframes > 0 => PendingSequence(frames))
    /\ [](Join /\ Done /\ AllDecoded /\ PendingSequence(frames) => Failed)
    /\ [](Join /\ Succeeded /\ Continuable(result.val) =>
            is_set(result.val.flags, FLAG_END_HEADERS))
    /\ (Join ~> Done)

\* The input ends at a frame boundary after an initiator and one CONTINUATION,
\* both without END_HEADERS.
C18_Witness ==
    /\ Join
    /\ Failed
    /\ nframes = 2
    /\ AllDecoded
    /\ PendingSequence(frames)
    /\ result.kind = "IoError"
    /\ log[Len(log)] = Read(0)

\* Bytes b after their first n whole frames.
RECURSIVE DropFrames(_, _)
DropFrames(b, n) ==
    IF n = 0 THEN b
    ELSE DropFrames(
            BytesAfter(b, FRAME_HEADER_LEN
                          + unpack_header(SubSeq(b, 1, FRAME_HEADER_LEN)).length),
            n - 1)

\* What reading one frame from bytes b, the input ending after them, gives:
\* the size check looks at the frame's own announced length only.
ReadOutcome(b) ==
    IF Len(b) < FRAME_HEADER_LEN THEN Err("IoError", "read")
    ELSE LET length == unpack_header(SubSeq(b, 1, FRAME_HEADER_LEN)).length
         IN  IF length > max_frame_size THEN Err("CodeError", "FrameSizeError")
             ELSE IF Len(b) < FRAME_HEADER_LEN + length THEN Err("IoError", "read")
             ELSE from_raw(b)

\* A header sequence is pending and the call has ended.
EndedWhilePending == Join /\ Done /\ PendingSequence(frames)

\* C19: a partially accumulated header block is never delivered.  A call that
\* ends while a header sequence is pending returns no frame but the error of
\* the read that failed: FrameSizeError when the next frame's own length
\* exceeds max_frame_size, the decode error when it does not decode, the read
\* error when the input ends; the size check is made on each frame's own
\* length, whatever the length of the fragment accumulated so far.
C19_PartialBlockNeverDelivered ==
    /\ EndedWhilePending =>
          /\ Failed
          /\ result = ReadOutcome(DropFrames(rd, Len(frames)))
          /\ result.kind \in {"CodeError", "InvalidFrame", "IoError"}
    /\ Join /\ pc = "read_payload" =>
          unpack_header(raw_header).length <= max_frame_size
    /\ Join /\ Succeeded => WholeFrames(rd) /\ Len(SplitFrames(rd)) = Len(frames)

\* The third frame of a sequence is refused for its own length, after a second
\* frame was accepted that made the accumulated fragment longer than
\* max_frame_size.
C19_Witness ==
    /\ EndedWhilePending
    /\ nframes = 2
    /\ AllDecoded
    /\ Len(ConcatFragments(frames)) > max_frame_size
    /\ max_frame_size > 0
    /\ result = Err("CodeError", "FrameSizeError")

\* The input of recv_raw_frame ended before the frame it announced was complete.
TruncatedFrame ==
    /\ op = "recv_raw_frame"
    /\ Done
    /\ \/ Len(rd) < FRAME_HEADER_LEN
       \/ Len(rd) < FRAME_HEADER_LEN
                    + unpack_header(SubSeq(rd, 1, FRAME_HEADER_LEN)).length

\* The input of server_handshake holds fewer bytes than the preface.
TruncatedPreface == op = "server_handshake" /\ Len(rd) < Len(PREFACE)

\* C20: truncated input never yields a frame or a completed handshake.  When
\* the input ends before 9 header bytes or before the announced payload was
\* read, recv_raw_frame returns an error and no frame; when it ends before 24
\* preface bytes, server_handshake returns an error and has written nothing.
C20_TruncatedInputIsError ==
    /\ TruncatedFrame => Failed /\ result.kind \in {"IoError", "CodeError"}
    /\ TruncatedFrame /\ result.kind = "CodeError" =>
          /\ Len(rd) = FRAME_HEADER_LEN
          /\ unpack_header(rd).length > max_frame_size
    /\ op = "recv_raw_frame" /\ Succeeded =>
          /\ Len(result.val) = Len(rd)
          /\ result.val = rd
    /\ TruncatedPreface => ~Succeeded /\ wr = <<>>
    /\ TruncatedPreface /\ Done => result = Err("IoError", "read")

\* The payload of a frame that passed the size check stops short.
C20_Witness ==
    /\ TruncatedFrame
    /\ Failed
    /\ Len(rd) > FRAME_HEADER_LEN
    /\ unpack_header(SubSeq(rd, 1, FRAME_HEADER_LEN)).length <= max_frame_size
    /\ result = Err("IoError", "read")

----------------------------------------------------------------------------
(* The client: vocabulary and properties.                                  *)

\* The requests that were given a stream of the current connection.
Started ==
    { i \in 1..Len(requests) :
        requests[i].connection = generation /\ requests[i].stream_id # 0 }

\* The request has ended: the peer's END_STREAM was received for it (its
\* handle still held or dropped), or the peer reset its stream.
Ended(r) == r.end_stream \/ ~r.reset.none

ResetStep ==
    \E i \in 1..Len(requests) : requests[i].reset.none /\ ~requests'[i].reset.none

\* C12: when the peer resets an open stream with a code, the request fails
\* with CodeError of exactly that code and keeps that outcome, the stream
\* leaves the stream table, and the step leaves the connection as it was:
\* connected, with the same next stream id, and nothing written.
C12_RstStreamIsCodeError ==
    /\ [](\A i \in 1..Len(requests) :
            ~requests[i].reset.none =>
                /\ requests[i].result = CodeError(requests[i].reset.val)
                /\ requests[i].connection = generation =>
                      requests[i].stream_id \notin DOMAIN streams)
    /\ [][ResetStep =>
            /\ conn_state = "connected" /\ conn_state' = "connected"
            /\ UNCHANGED <<generation, next_stream_id, goaway, peer_closed, sent>>]_vars

\* The first request was reset after response HEADERS without END_STREAM; the
\* second was carried by the same connection and completed.
C12_Witness ==
    /\ Len(requests) = 2
    /\ requests[1].headers /\ ~requests[1].end_stream
    /\ requests[1].reset = Some("InadequateSecurity")
    /\ requests[1].result = CodeError("InadequateSecurity")
    /\ requests[2].connection = requests[1].connection
    /\ requests[2].stream_id = 3
    /\ requests[2].result = Ok(<<>>)
    /\ conn_state = "connected"

\* The HEADERS the client wrote to the connection, in order.
HeadersSent == SelectSeq(sent, LAMBDA it : it.type = "Headers")

\* RST_STREAM(CANCEL) was written for stream id.
CancelSent(id) ==
    \E k \in 1..Len(sent) :
        sent[k].type = "RstStream" /\ sent[k].stream_id = id /\ sent[k].code = "Cancel"

\* C13: the stream ids a client opens on one connection are 1, 3, 5, ... in
\* the order its requests were started; no id is used twice; a request whose
\* handle was dropped before completion keeps the id it consumed, and
\* RST_STREAM(CANCEL) was written for its stream.
C13_StreamIdsOddAscending ==
    /\ \A k \in 1..Len(HeadersSent) : HeadersSent[k].stream_id = 2 * k - 1
    /\ Len(HeadersSent) = Cardinality(Started)
    /\ next_stream_id = 2 * Cardinality(Started) + 1
    /\ \A i, j \in Started :
          i < j => requests[j].stream_id >= requests[i].stream_id + 2
    /\ \A i \in Started :
          requests[i].dropped => CancelSent(requests[i].stream_id)

\* The first request was dropped before any response; the second used
\* stream 3 and completed.
C13_Witness ==
    /\ Len(requests) = 2
    /\ Started = {1, 2}
    /\ requests[1].stream_id = 1
    /\ requests[1].dropped /\ ~requests[1].headers /\ requests[1].result = None
    /\ CancelSent(1)
    /\ requests[2].stream_id = 3
    /\ requests[2].result = Ok(<<>>)

\* The connection has ended for the client's peer: the socket was closed.
PeerEnded == conn_state = "connected" /\ peer_closed

\* A request is started in this step while the connection is dead.
RequestAfterDeath == conn_state = "dead" /\ Len(requests') = Len(requests) + 1

====
